---- MODULE Spec2Model ----
(***************************************************************************)
(* Model of the chat server in src/server/server.js: the session map       *)
(* `users`, the room directory `rooms`, the socket.io room subscriptions   *)
(* of every socket, and the events each handler emits.  Every handler runs *)
(* to completion (single-threaded event loop), so each handler is one      *)
(* action.  Timestamps (new Date()) are not modelled: no handler reads     *)
(* them back.                                                              *)
(***************************************************************************)
EXTENDS Integers, Sequences, FiniteSets, TLC

\* ------------------------------------------------------------------ bounds

\* Number of transport connections that are ever opened.
NumConns == 3

\* Number of inbound events (connections included) the server handles in a run.
MaxEvents == 7

\* Payloads of join_chat: two names, a whitespace-only string, the empty string.
Usernames == {"alice", "bob", " ", ""}

\* Payloads of join_room, typing_start, typing_stop: the default room, another
\* room, a string that is also the id of a socket, and the empty string.
RoomNames == {"general", "dev", "s1", ""}

\* Message bodies.
Bodies == {"hello"}

\* Socket ids, in the order the transport hands them out.
SocketIds == <<"s1", "s2", "s3", "s4", "s5">>

\* The socket ids in use.
Conn == {SocketIds[i] : i \in 1..NumConns}

\* ------------------------------------------------------------------ state

VARIABLES
    sockets,   \* socket id -> "idle" | "connected" | "disconnected"
    joined,    \* socket id -> set of socket.io room labels the socket is in
    users,     \* the Map users: socket id -> [username, currentRoom]
    rooms,     \* the Map rooms: room id -> [name, users: set of socket ids]
    out,       \* the events emitted by the handler that ran last, in order
    last,      \* the inbound event handled last
    events     \* how many inbound events have been handled

vars == <<sockets, joined, users, rooms, out, last, events>>

DEFAULT_ROOM == "general"

\* the shape of the server state
TypeOK ==
    /\ sockets \in [Conn -> {"idle", "connected", "disconnected"}]
    /\ joined \in [Conn -> SUBSET (RoomNames \cup Conn)]
    /\ DOMAIN users \subseteq Conn
    /\ \A id \in DOMAIN users :
          users[id].username \in Usernames /\ users[id].currentRoom \in RoomNames
    /\ DOMAIN rooms \subseteq RoomNames
    /\ \A r \in DOMAIN rooms : rooms[r].users \subseteq Conn
    /\ last.released \subseteq Usernames
    /\ events \in 0..MaxEvents

\* ---------------------------------------------------------------- helpers

\* username.trim(), on the payloads of Usernames
Trim(s) == IF s = " " THEN "" ELSE s

\* !value, for a string value
Falsy(s) == s = ""

\* Map.set(k, v)
MapSet(m, k, v) == [x \in DOMAIN m \cup {k} |-> IF x = k THEN v ELSE m[x]]

\* as MapDelete, a delete that removes nothing
MapDeleteNothing(m, k) == m

\* Map.delete(k)
MapDelete(m, k) == [x \in DOMAIN m \ {k} |-> m[x]]

\* as UsersAdd, with the add left out
UsersAddNothing(rm, r, id) == rm

\* rooms.get(r).users.add(id)
UsersAdd(rm, r, id) == [rm EXCEPT ![r].users = @ \cup {id}]

\* as UsersDelete, dropping a room other than the default room once it is empty
UsersDeleteDropEmpty(rm, r, id) ==
    IF r \notin DOMAIN rm THEN rm
    ELSE IF rm[r].users \ {id} = {} /\ r # DEFAULT_ROOM THEN MapDelete(rm, r)
    ELSE [rm EXCEPT ![r].users = @ \ {id}]

\* rooms.get(r)?.users.delete(id)
UsersDelete(rm, r, id) ==
    IF r \in DOMAIN rm THEN [rm EXCEPT ![r].users = @ \ {id}] ELSE rm

\* socket.join(r)
SocketJoin(jn, id, r) == [jn EXCEPT ![id] = @ \cup {r}]

\* socket.leave(r)
SocketLeave(jn, id, r) == [jn EXCEPT ![id] = @ \ {r}]

\* as ExistingUser, comparing the wrong field of the session with the name
ExistingUserWrongField(us, username) ==
    \E id \in DOMAIN us : us[id].currentRoom = username

\* as ExistingUser, with !== in place of ===
ExistingUserOtherName(us, username) ==
    \E id \in DOMAIN us : us[id].username # username

\* Array.from(users.values()).find(user => user.username === username)
ExistingUser(us, username) == \E id \in DOMAIN us : us[id].username = username

\* as OnlineUsers, reporting the default room for every session
OnlineUsersDefaultRoom(us) ==
    {[socketId |-> id, username |-> us[id].username,
      currentRoom |-> DEFAULT_ROOM] : id \in DOMAIN us}

\* Array.from(users.entries()).map(([id, data]) => ({socketId, username, currentRoom}))
OnlineUsers(us) ==
    {[socketId |-> id, username |-> us[id].username,
      currentRoom |-> us[id].currentRoom] : id \in DOMAIN us}

\* as AvailableRooms, listing only the rooms that have an occupant
AvailableRoomsOccupied(rm) == {r \in DOMAIN rm : rm[r].users # {}}

\* Array.from(rooms.keys())
AvailableRooms(rm) == DOMAIN rm

\* Array.from(rooms.get(r)?.users || new Set()).map(id => users.get(id)?.username).filter(Boolean)
RoomUsernames(rm, us, r) ==
    LET ids == IF r \in DOMAIN rm THEN rm[r].users ELSE {}
        names == {us[id].username : id \in ids \cap DOMAIN us}
    IN {n \in names : ~Falsy(n)}

\* io.emit: every connected socket
ToAll(sk) == {id \in Conn : sk[id] = "connected"}

\* io.to(r).emit: every connected socket that is in socket.io room r
ToRoom(sk, jn, r) == {id \in Conn : sk[id] = "connected" /\ r \in jn[id]}

\* socket.to(r).emit: as io.to(r), without the emitting socket
ToRoomExcept(sk, jn, r, id) == ToRoom(sk, jn, r) \ {id}

\* as RoomMessageTargets, with socket.to in place of io.to
RoomMessageTargetsSocketTo(sk, jn, us, id) ==
    ToRoomExcept(sk, jn, us[id].currentRoom, id)

\* io.to(user.currentRoom) of send_message
RoomMessageTargets(sk, jn, us, id) == ToRoom(sk, jn, us[id].currentRoom)

\* one emitted event: its name, the sockets it is delivered to, its payload
Emit(event, to, data) == [event |-> event, to |-> to, data |-> data]

\* as ErrorReply, with io.emit in place of socket.emit
ErrorReplyIoEmit(sk, id, text) == <<Emit("error_message", ToAll(sk), [text |-> text])>>

\* socket.emit('error_message', text); return
ErrorReply(sk, id, text) == <<Emit("error_message", {id}, [text |-> text])>>

\* as UnknownDisconnected, with the io.emit of line 236 after the if / else
UnknownDisconnectedNotifies(sk, id) ==
    <<Emit("user_disconnected", ToAll(sk), [socketId |-> id])>>

\* the else branch of the disconnect handler: a console.log, no emission
UnknownDisconnected(sk, id) == <<>>

\* as NewSession, leaving the room of the new session empty
NewSessionNoRoom(username) == [username |-> username, currentRoom |-> ""]

\* { username, currentRoom: DEFAULT_ROOM }
NewSession(username) == [username |-> username, currentRoom |-> DEFAULT_ROOM]

\* the record of the inbound event just handled; released is history: the
\* display names of the sessions that disconnect has removed so far
Handled(op, id, arg, ok) ==
    [op |-> op, id |-> id, arg |-> arg, ok |-> ok,
     from |-> IF id \in DOMAIN users THEN {users[id].currentRoom} ELSE {},
     released |-> IF op = "disconnect" /\ id \in DOMAIN users
                  THEN last.released \cup {users[id].username}
                  ELSE last.released]

\* ------------------------------------------------------------------- init

Init ==
    /\ sockets = [id \in Conn |-> "idle"]
    /\ joined = [id \in Conn |-> {}]
    /\ users = [id \in {} |-> [username |-> "", currentRoom |-> ""]]
    /\ rooms = [r \in {DEFAULT_ROOM} |-> [name |-> "General Chat", users |-> {}]]
    /\ out = <<>>
    /\ last = [op |-> "listen", id |-> "", arg |-> [none |-> TRUE], ok |-> TRUE,
               from |-> {}, released |-> {}]
    /\ events = 0

\* ---------------------------------------------------------------- actions

\* one more inbound event is handled
Count ==
    /\ events < MaxEvents
    /\ events' = events + 1

\* io.on('connection'): the transport opens the next socket; socket.io puts
\* every socket in the room named by its own id.
Connection(i) ==
    /\ sockets[SocketIds[i]] = "idle"
    /\ Count
    /\ \A j \in 1..(i - 1) : sockets[SocketIds[j]] # "idle"
    /\ sockets' = [sockets EXCEPT ![SocketIds[i]] = "connected"]
    /\ joined' = [joined EXCEPT ![SocketIds[i]] = {SocketIds[i]}]
    /\ out' = <<>>
    /\ last' = Handled("connection", SocketIds[i], [none |-> TRUE], TRUE)
    /\ UNCHANGED <<users, rooms>>

\* socket.on('join_chat')
JoinChat(id, username) ==
    /\ sockets[id] = "connected"
    /\ Count
    /\ IF Falsy(username) THEN
          /\ out' = ErrorReply(sockets, id, "Username cannot be empty.")
          /\ last' = Handled("join_chat", id, [username |-> username], FALSE)
          /\ UNCHANGED <<sockets, joined, users, rooms>>
       ELSE IF ExistingUser(users, username) THEN
          /\ out' = ErrorReply(sockets, id, "Username already taken. Please choose another.")
          /\ last' = Handled("join_chat", id, [username |-> username], FALSE)
          /\ UNCHANGED <<sockets, joined, users, rooms>>
       ELSE
          LET users1 == MapSet(users, id, NewSession(username))
              joined1 == SocketJoin(joined, id, DEFAULT_ROOM)
              rooms1 == UsersAdd(rooms, DEFAULT_ROOM, id)
          IN /\ users' = users1
             /\ joined' = joined1
             /\ rooms' = rooms1
             /\ out' = <<
                  Emit("user_joined", ToAll(sockets),
                       [socketId |-> id, username |-> username,
                        currentRoom |-> DEFAULT_ROOM]),
                  Emit("online_users", {id}, [users |-> OnlineUsers(users1)]),
                  Emit("available_rooms", {id}, [rooms |-> AvailableRooms(rooms)]),
                  Emit("receive_message", {id},
                       [sender |-> "System",
                        message |-> <<"Welcome, ", username, DEFAULT_ROOM>>,
                        room |-> DEFAULT_ROOM]),
                  Emit("room_users_update", ToRoom(sockets, joined1, DEFAULT_ROOM),
                       [room |-> DEFAULT_ROOM,
                        users |-> RoomUsernames(rooms1, users1, DEFAULT_ROOM)]) >>
             /\ last' = Handled("join_chat", id, [username |-> username], TRUE)
             /\ UNCHANGED sockets

\* socket.on('join_room')
JoinRoom(id, roomName) ==
    /\ sockets[id] = "connected"
    /\ Count
    /\ IF id \notin DOMAIN users THEN
          /\ out' = ErrorReply(sockets, id, "Please set your username first.")
          /\ last' = Handled("join_room", id, [room |-> roomName], FALSE)
          /\ UNCHANGED <<sockets, joined, users, rooms>>
       ELSE
          LET user == users[id]
              old == user.currentRoom
              leaves == ~Falsy(old)
              joined1 == IF leaves THEN SocketLeave(joined, id, old) ELSE joined
              rooms1 == IF leaves THEN UsersDelete(rooms, old, id) ELSE rooms
              outLeave ==
                  IF leaves THEN
                     <<Emit("room_users_update", ToRoom(sockets, joined1, old),
                            [room |-> old,
                             users |-> RoomUsernames(rooms1, users, old)]),
                       Emit("receive_message", ToRoom(sockets, joined1, old),
                            [sender |-> "System",
                             message |-> <<user.username, " has left the room.">>,
                             room |-> old])>>
                  ELSE <<>>
              creates == roomName \notin DOMAIN rooms1
              rooms2 == IF creates
                        THEN MapSet(rooms1, roomName, [name |-> roomName, users |-> {}])
                        ELSE rooms1
              outCreate ==
                  IF creates
                  THEN <<Emit("available_rooms", ToAll(sockets),
                              [rooms |-> AvailableRooms(rooms2)])>>
                  ELSE <<>>
              joined2 == SocketJoin(joined1, id, roomName)
              users2 == [users EXCEPT ![id].currentRoom = roomName]
              rooms3 == UsersAdd(rooms2, roomName, id)
          IN /\ users' = users2
             /\ joined' = joined2
             /\ rooms' = rooms3
             /\ out' = outLeave \o outCreate \o
                  <<Emit("room_users_update", ToRoom(sockets, joined2, roomName),
                         [room |-> roomName,
                          users |-> RoomUsernames(rooms3, users2, roomName)]),
                    Emit("receive_message", ToRoom(sockets, joined2, roomName),
                         [sender |-> "System",
                          message |-> <<user.username, " has joined the room.">>,
                          room |-> roomName]),
                    Emit("room_changed", {id}, [room |-> roomName])>>
             /\ last' = Handled("join_room", id, [room |-> roomName], TRUE)
             /\ UNCHANGED sockets

\* socket.on('send_message')
SendMessage(id, message) ==
    /\ sockets[id] = "connected"
    /\ Count
    /\ IF id \notin DOMAIN users THEN
          /\ out' = ErrorReply(sockets, id, "Please set your username first.")
          /\ last' = Handled("send_message", id, [message |-> message], FALSE)
       ELSE
          /\ out' = <<Emit("receive_message",
                           RoomMessageTargets(sockets, joined, users, id),
                           [sender |-> users[id].username,
                            message |-> <<message>>,
                            room |-> users[id].currentRoom])>>
          /\ last' = Handled("send_message", id, [message |-> message], TRUE)
    /\ UNCHANGED <<sockets, joined, users, rooms>>

\* socket.on('send_private_message')
SendPrivateMessage(id, receiverSocketId, message) ==
    /\ sockets[id] = "connected"
    /\ Count
    /\ LET arg == [receiverSocketId |-> receiverSocketId, message |-> message]
       IN IF id \notin DOMAIN users THEN
             /\ out' = ErrorReply(sockets, id, "Please set your username first.")
             /\ last' = Handled("send_private_message", id, arg, FALSE)
          ELSE IF receiverSocketId \notin DOMAIN users THEN
             /\ out' = ErrorReply(sockets, id, <<"User with ID ", receiverSocketId, " is not online.">>)
             /\ last' = Handled("send_private_message", id, arg, FALSE)
          ELSE
             LET messageData == [sender |-> users[id].username,
                                 message |-> <<message>>,
                                 isPrivate |-> TRUE,
                                 receiver |-> users[receiverSocketId].username]
             IN /\ out' = <<Emit("receive_message", {id}, messageData),
                            Emit("receive_message",
                                 ToRoom(sockets, joined, receiverSocketId),
                                 messageData)>>
                /\ last' = Handled("send_private_message", id, arg, TRUE)
    /\ UNCHANGED <<sockets, joined, users, rooms>>

\* socket.on('typing_start')
TypingStart(id, room) ==
    /\ sockets[id] = "connected"
    /\ Count
    /\ IF id \in DOMAIN users THEN
          /\ out' = <<Emit("typing_status", ToRoomExcept(sockets, joined, room, id),
                           [username |-> users[id].username,
                            isTyping |-> TRUE, room |-> room])>>
          /\ last' = Handled("typing_start", id, [room |-> room], TRUE)
       ELSE
          /\ out' = <<>>
          /\ last' = Handled("typing_start", id, [room |-> room], FALSE)
    /\ UNCHANGED <<sockets, joined, users, rooms>>

\* socket.on('typing_stop')
TypingStop(id, room) ==
    /\ sockets[id] = "connected"
    /\ Count
    /\ IF id \in DOMAIN users THEN
          /\ out' = <<Emit("typing_status", ToRoomExcept(sockets, joined, room, id),
                           [username |-> users[id].username,
                            isTyping |-> FALSE, room |-> room])>>
          /\ last' = Handled("typing_stop", id, [room |-> room], TRUE)
       ELSE
          /\ out' = <<>>
          /\ last' = Handled("typing_stop", id, [room |-> room], FALSE)
    /\ UNCHANGED <<sockets, joined, users, rooms>>

\* socket.on('disconnect'): socket.io has taken the socket out of all its
\* rooms and out of the namespace before the handler runs.
Disconnect(id) ==
    /\ sockets[id] = "connected"
    /\ Count
    /\ LET sockets1 == [sockets EXCEPT ![id] = "disconnected"]
           joined1 == [joined EXCEPT ![id] = {}]
       IN /\ sockets' = sockets1
          /\ joined' = joined1
          /\ IF id \in DOMAIN users THEN
                LET user == users[id]
                    cur == user.currentRoom
                    inRoom == ~Falsy(cur) /\ cur \in DOMAIN rooms
                    rooms1 == IF inRoom THEN UsersDelete(rooms, cur, id) ELSE rooms
                    outRoom ==
                        IF inRoom THEN
                           <<Emit("room_users_update", ToRoom(sockets1, joined1, cur),
                                  [room |-> cur,
                                   users |-> RoomUsernames(rooms1, users, cur)]),
                             Emit("receive_message", ToRoom(sockets1, joined1, cur),
                                  [sender |-> "System",
                                   message |-> <<user.username, " has left the room.">>,
                                   room |-> cur])>>
                        ELSE <<>>
                IN /\ rooms' = rooms1
                   /\ users' = MapDelete(users, id)
                   /\ out' = outRoom \o
                        <<Emit("user_disconnected", ToAll(sockets1), [socketId |-> id])>>
                   /\ last' = Handled("disconnect", id, [none |-> TRUE], TRUE)
             ELSE
                /\ out' = UnknownDisconnected(sockets1, id)
                /\ last' = Handled("disconnect", id, [none |-> TRUE], FALSE)
                /\ UNCHANGED <<users, rooms>>

\* ------------------------------------------------------------------- spec

Next ==
    \/ \E i \in 1..NumConns : Connection(i)
    \/ \E id \in Conn, username \in Usernames : JoinChat(id, username)
    \/ \E id \in Conn, roomName \in RoomNames : JoinRoom(id, roomName)
    \/ \E id \in Conn, message \in Bodies : SendMessage(id, message)
    \/ \E id \in Conn, receiverSocketId \in Conn, message \in Bodies :
          SendPrivateMessage(id, receiverSocketId, message)
    \/ \E id \in Conn, room \in RoomNames : TypingStart(id, room)
    \/ \E id \in Conn, room \in RoomNames : TypingStop(id, room)
    \/ \E id \in Conn : Disconnect(id)

Spec == Init /\ [][Next]_vars

\* --------------------------------------------------------- claim helpers

\* a display name that is blank after trimming
Blank(n) == Trim(n) = ""

\* the lifecycle state of a connection
Lifecycle(sk, us, id) ==
    IF sk[id] = "disconnected" THEN "Terminated"
    ELSE IF id \in DOMAIN us THEN "Active"
    ELSE "Unregistered"

\* the positions in the emitted sequence o that hold event ev
Positions(o, ev) == {i \in 1..Len(o) : o[i].event = ev}

\* the positions in o of a room_users_update for room r
UpdatesFor(o, r) == {i \in Positions(o, "room_users_update") : o[i].data.room = r}

\* o holds, next to each other, a room_users_update for room r and the system
\* message that name has left / has joined (text) room r
HasPair(o, r, name, text) ==
    \E i \in 1..(Len(o) - 1) :
        /\ o[i].event = "room_users_update"
        /\ o[i].data.room = r
        /\ o[i + 1].event = "receive_message"
        /\ o[i + 1].data.sender = "System"
        /\ o[i + 1].data.message = <<name, text>>
        /\ o[i + 1].data.room = r

\* the handler that ran in this step was op, for connection id
Ran(op, id) == last'.op = op /\ last'.id = id

\* ----------------------------------------------------------------- claims

\* C1: in every state, a connection-id is in the occupant set of room R if and
\* only if the session map holds a session for it whose currentRoom is R.
C1_OccupantIffSession ==
    \A id \in Conn, r \in DOMAIN rooms :
        id \in rooms[r].users <=> (id \in DOMAIN users /\ users[id].currentRoom = r)

\* C2: in every state no two distinct connection-ids in the session map have
\* the same display name.
C2_UniqueNames ==
    \A a, b \in DOMAIN users : a # b => users[a].username # users[b].username

\* C2 witness: a connection that already had a session has just joined again
\* under a new name while another session exists.
C2_Witness ==
    /\ last.op = "join_chat" /\ last.ok /\ last.from # {}
    /\ Cardinality(DOMAIN users) >= 2

\* the outcome C3 describes for a join_chat(n) of the unregistered connection
\* id: a session when no active session has the name, else the name-taken error
C3_Outcome(id, n) ==
    IF \E other \in DOMAIN users : users[other].username = n
    THEN /\ users' = users
         /\ Len(out') = 1
         /\ out'[1].event = "error_message"
         /\ out'[1].to = {id}
         /\ out'[1].data.text = "Username already taken. Please choose another."
    ELSE /\ id \in DOMAIN users'
         /\ users'[id].username = n
         /\ Positions(out', "error_message") = {}

\* C3 as stated: a join_chat from an unregistered connection whose name differs
\* from every active session's name succeeds and creates a session; one whose
\* name equals an active session's name gets the name-taken error and no session.
C3_Original ==
    [][\A id \in Conn :
          (Ran("join_chat", id) /\ id \notin DOMAIN users)
              => C3_Outcome(id, last'.arg.username)]_vars

\* C3 amended: the same, for a join_chat whose name is not blank after trimming.
C3_NonBlankJoin ==
    [][\A id \in Conn :
          (Ran("join_chat", id) /\ id \notin DOMAIN users
             /\ ~Blank(last'.arg.username))
              => C3_Outcome(id, last'.arg.username)]_vars

\* C3 witness: the connection opened first was refused a name that a
\* connection opened later holds, and a second session exists beside it.
C3_Witness ==
    /\ last.op = "join_chat" /\ ~last.ok /\ last.from = {}
    /\ last.id = SocketIds[1]
    /\ ~Blank(last.arg.username)
    /\ \E id \in DOMAIN users : id # last.id /\ users[id].username = last.arg.username
    /\ Cardinality(DOMAIN users) >= 2

\* C4: a join_chat sent by a connection that is already Active leaves every
\* session as it was, and no connection leaves Active other than to Terminated
\* or ever returns to Unregistered.
C4_Lifecycle ==
    [][\A id \in Conn :
          /\ (Ran("join_chat", id) /\ id \in DOMAIN users) => users' = users
          /\ Lifecycle(sockets, users, id) = "Active"
                => Lifecycle(sockets', users', id) \in {"Active", "Terminated"}
          /\ Lifecycle(sockets, users, id) = "Terminated"
                => Lifecycle(sockets', users', id) = "Terminated"]_vars

\* C5: a join_chat whose name is blank after trimming gets exactly one
\* error_message, the empty-name error, creates no session and emits nothing else.
C5_BlankNameRejected ==
    [][\A id \in Conn :
          (Ran("join_chat", id) /\ Blank(last'.arg.username))
              => /\ users' = users
                 /\ Len(out') = 1
                 /\ out'[1].event = "error_message"
                 /\ out'[1].to = {id}
                 /\ out'[1].data.text = "Username cannot be empty."]_vars

\* C6: after a successful join_chat by c with name n, the one online_users
\* event goes to c alone, lists exactly the active sessions, one entry per
\* connection-id, and its only entry named n is (c, n, default room).
C6_OnlineUsers ==
    (last.op = "join_chat" /\ last.ok) =>
        /\ Cardinality(Positions(out, "online_users")) = 1
        /\ \A i \in Positions(out, "online_users") :
              LET list == out[i].data.users
              IN /\ out[i].to = {last.id}
                 /\ \A e \in list :
                       /\ e.socketId \in DOMAIN users
                       /\ e.username = users[e.socketId].username
                       /\ e.currentRoom = users[e.socketId].currentRoom
                 /\ \A id \in DOMAIN users :
                       Cardinality({e \in list : e.socketId = id}) = 1
                 /\ {e \in list : e.username = last.arg.username}
                       = {[socketId |-> last.id, username |-> last.arg.username,
                           currentRoom |-> DEFAULT_ROOM]}

\* C6 witness: a successful join_chat while another session is in a room other
\* than the default room.
C6_Witness ==
    /\ last.op = "join_chat" /\ last.ok
    /\ \E id \in DOMAIN users : id # last.id /\ users[id].currentRoom # DEFAULT_ROOM

\* C7: after join_room(c, B) by an active c whose currentRoom was A, c is an
\* occupant of B, its currentRoom is B, it is no occupant of A when A differs
\* from B, one room_changed(B) went to c alone, and a room_users_update was
\* broadcast for A and for B (two for the same room when A equals B).
C7_JoinRoomMoves ==
    [][\A id \in Conn :
          (Ran("join_room", id) /\ id \in DOMAIN users) =>
              LET A == users[id].currentRoom
                  B == last'.arg.room
              IN /\ B \in DOMAIN rooms'
                 /\ id \in rooms'[B].users
                 /\ users'[id].currentRoom = B
                 /\ A # B => id \notin rooms'[A].users
                 /\ Cardinality(Positions(out', "room_changed")) = 1
                 /\ \A i \in Positions(out', "room_changed") :
                       out'[i].to = {id} /\ out'[i].data.room = B
                 /\ Cardinality(UpdatesFor(out', A)) >= (IF A = B THEN 2 ELSE 1)
                 /\ Cardinality(UpdatesFor(out', B)) >= (IF A = B THEN 2 ELSE 1)]_vars

\* C8: join_room(c, R) twice in a row emits the old-room pair and the new-room
\* pair on each of the two calls, and the second call leaves all occupant sets
\* and the sessions as the first call left them, with c an occupant of R.
C8_JoinRoomTwice ==
    [][\A id \in Conn :
          (/\ last.op = "join_room" /\ last.ok /\ last.id = id
           /\ Ran("join_room", id) /\ last'.arg.room = last.arg.room) =>
              LET R == last.arg.room
                  name == users[id].username
              IN /\ \A A \in last.from : HasPair(out, A, name, " has left the room.")
                 /\ HasPair(out, R, name, " has joined the room.")
                 /\ HasPair(out', R, name, " has left the room.")
                 /\ HasPair(out', R, name, " has joined the room.")
                 /\ rooms' = rooms
                 /\ users' = users
                 /\ id \in rooms'[R].users]_vars

\* C9: a send_message from an active connection c is one receive_message with
\* c's display name as sender and c's currentRoom as room, delivered to every
\* connection that is an occupant of c's currentRoom, c included.
C9_RoomMessageDelivered ==
    (last.op = "send_message" /\ last.ok) =>
        LET user == users[last.id]
        IN /\ Len(out) = 1
           /\ out[1].event = "receive_message"
           /\ out[1].data.sender = user.username
           /\ out[1].data.room = user.currentRoom
           /\ out[1].data.message = <<last.arg.message>>
           /\ last.id \in rooms[user.currentRoom].users
           /\ last.id \in out[1].to
           /\ \A id \in rooms[user.currentRoom].users :
                 sockets[id] = "connected" => id \in out[1].to

\* C9 witness: a room message was sent in a room other than the default room
\* that has a second occupant.
C9_Witness ==
    /\ last.op = "send_message" /\ last.ok
    /\ users[last.id].currentRoom # DEFAULT_ROOM
    /\ \E id \in rooms[users[last.id].currentRoom].users :
          id # last.id /\ sockets[id] = "connected"

\* C10: a room message sent by a connection whose currentRoom is R is delivered
\* to no connection whose session has another currentRoom and to no connection
\* without a session.
C10_RoomIsolation ==
    (last.op = "send_message" /\ last.ok) =>
        \A i \in Positions(out, "receive_message") :
            \A id \in out[i].to :
                /\ id \in DOMAIN users
                /\ users[id].currentRoom = users[last.id].currentRoom

\* C11: a send_private_message from an active x to y delivers, when y has a
\* session, exactly two receive_message events, one to x alone and one to y
\* alone, with the same body, isPrivate, x's name as sender and y's name as
\* receiver; when y has no session, nothing but one error_message to x.
C11_PrivateDelivery ==
    (last.op = "send_private_message" /\ last.id \in DOMAIN users) =>
        LET x == last.id
            y == last.arg.receiverSocketId
        IN IF y \in DOMAIN users
           THEN /\ Len(out) = 2
                /\ \A i \in 1..2 :
                      /\ out[i].event = "receive_message"
                      /\ out[i].data.message = <<last.arg.message>>
                      /\ out[i].data.isPrivate
                      /\ out[i].data.sender = users[x].username
                      /\ out[i].data.receiver = users[y].username
                /\ out[1].to = {x}
                /\ out[2].to = {y}
           ELSE /\ Len(out) = 1
                /\ out[1].event = "error_message"
                /\ out[1].to = {x}

\* the occupant set the room directory holds for room r
Occupants(rm, r) == IF r \in DOMAIN rm THEN rm[r].users ELSE {}

\* C12: typing_start / typing_stop for room R from an active c deliver one
\* typing_status (c's name, isTyping, R) only to occupants of R other than c;
\* from a connection without a session they emit nothing; the session map and
\* the occupant sets stay as they were.
C12_TypingRelay ==
    [][\A id \in Conn :
          (Ran("typing_start", id) \/ Ran("typing_stop", id)) =>
              /\ users' = users
              /\ rooms' = rooms
              /\ IF id \in DOMAIN users
                 THEN /\ Len(out') = 1
                      /\ out'[1].event = "typing_status"
                      /\ out'[1].data.username = users[id].username
                      /\ out'[1].data.isTyping = (last'.op = "typing_start")
                      /\ out'[1].data.room = last'.arg.room
                      /\ id \notin out'[1].to
                      /\ out'[1].to \subseteq Occupants(rooms, last'.arg.room)
                 ELSE out' = <<>>]_vars

\* C13: the disconnect of a connection that has no session emits nothing and
\* leaves the session map and every occupant set as they were.
C13_UnknownDisconnect ==
    [][\A id \in Conn :
          (Ran("disconnect", id) /\ id \notin DOMAIN users) =>
              /\ out' = <<>>
              /\ users' = users
              /\ rooms' = rooms]_vars

\* C13 witness: a connection without a session has disconnected while another
\* connection has a session and is connected.
C13_Witness ==
    /\ last.op = "disconnect" /\ ~last.ok
    /\ \E id \in DOMAIN users : sockets[id] = "connected"

\* the inbound event handled in this step is one of the rejected operations:
\* join_chat with an empty or taken name; join_room, send_message or
\* send_private_message without a session; send_private_message to an id
\* without a session
RejectedOperation(id) ==
    \/ /\ Ran("join_chat", id)
       /\ \/ last'.arg.username = ""
          \/ \E other \in DOMAIN users : users[other].username = last'.arg.username
    \/ Ran("join_room", id) /\ id \notin DOMAIN users
    \/ Ran("send_message", id) /\ id \notin DOMAIN users
    \/ /\ Ran("send_private_message", id)
       /\ \/ id \notin DOMAIN users
          \/ last'.arg.receiverSocketId \notin DOMAIN users

\* C14: every rejected operation emits exactly one error_message, to the
\* originating connection only, and leaves the session map, the room directory
\* and all occupant sets as they were.
C14_RejectedOperation ==
    [][\A id \in Conn :
          RejectedOperation(id) =>
              /\ Len(out') = 1
              /\ out'[1].event = "error_message"
              /\ out'[1].to = {id}
              /\ users' = users
              /\ rooms' = rooms
              /\ joined' = joined]_vars

\* C14 witness: a send_private_message to an id without a session was rejected
\* while a third connection was connected.
C14_Witness ==
    /\ last.op = "send_private_message" /\ ~last.ok
    /\ last.id \in DOMAIN users
    /\ last.arg.receiverSocketId \notin DOMAIN users
    /\ \E id \in Conn \ {last.id, last.arg.receiverSocketId} : sockets[id] = "connected"

\* C15: in every state every session's currentRoom is a key of the room
\* directory.
C15_CurrentRoomExists ==
    \A id \in DOMAIN users : users[id].currentRoom \in DOMAIN rooms

\* C15 witness: one session is in the default room and another in a room that
\* a join_room created.
C15_Witness ==
    /\ \E id \in DOMAIN users : users[id].currentRoom = DEFAULT_ROOM
    /\ \E id \in DOMAIN users : users[id].currentRoom \notin {DEFAULT_ROOM, ""}

\* C16: the room directory only grows, also when an occupant set becomes
\* empty, and the default room is present in every state.
C16_RoomsOnlyGrow ==
    [][/\ DEFAULT_ROOM \in DOMAIN rooms
       /\ DEFAULT_ROOM \in DOMAIN rooms'
       /\ DOMAIN rooms \subseteq DOMAIN rooms']_vars

\* C16 witness: after a disconnect, the default room and a room that a
\* join_room created are both in the directory with no occupant.
C16_Witness ==
    /\ last.op = "disconnect" /\ last.ok
    /\ rooms[DEFAULT_ROOM].users = {}
    /\ \E r \in DOMAIN rooms : r # DEFAULT_ROOM /\ rooms[r].users = {}

\* the connections that are connected
Connected == {id \in Conn : sockets[id] = "connected"}

\* C17: a successful join_chat by c emits, in this order: user_joined (c, name,
\* default room) to all connections; online_users, available_rooms and the
\* system welcome message for the default room to c only; a room_users_update
\* for the default room to the occupants of the default room, c among them,
\* whose name list holds c's name.
C17_JoinChatOrder ==
    (last.op = "join_chat" /\ last.ok) =>
        LET c == last.id
            n == last.arg.username
        IN /\ Len(out) = 5
           /\ out[1].event = "user_joined"
           /\ out[1].to = Connected
           /\ c \in out[1].to
           /\ out[1].data = [socketId |-> c, username |-> n,
                             currentRoom |-> DEFAULT_ROOM]
           /\ out[2].event = "online_users"
           /\ out[3].event = "available_rooms"
           /\ out[3].data.rooms = DOMAIN rooms
           /\ out[4].event = "receive_message"
           /\ out[4].data.sender = "System"
           /\ out[4].data.room = DEFAULT_ROOM
           /\ \A i \in 2..4 : out[i].to = {c}
           /\ out[5].event = "room_users_update"
           /\ out[5].data.room = DEFAULT_ROOM
           /\ out[5].to = rooms[DEFAULT_ROOM].users \cap Connected
           /\ c \in out[5].to
           /\ n \in out[5].data.users

\* C17 witness: a join_chat succeeded while the default room had another
\* occupant and a further connection without a session was connected.
C17_Witness ==
    /\ last.op = "join_chat" /\ last.ok
    /\ Cardinality(out[5].to) >= 2
    /\ Connected \ DOMAIN users # {}

\* the event e is the system message that name has left / has joined (text)
\* room r
IsSystemMessage(e, r, name, text) ==
    /\ e.event = "receive_message"
    /\ e.data.sender = "System"
    /\ e.data.message = <<name, text>>
    /\ e.data.room = r

\* C18: a join_room by an active c from room A to room B emits, in this order:
\* to the occupants of A and not to c, a room_users_update for A without c's
\* name and the 'has left' message; available_rooms to all connections, if and
\* only if this call created B; to the occupants of B, c among them, a
\* room_users_update for B with c's name and the 'has joined' message;
\* room_changed(B) to c only.  The first step is performed whatever the
\* identifier of A.
C18_JoinRoomOrder ==
    [][\A id \in Conn :
          (Ran("join_room", id) /\ id \in DOMAIN users) =>
              LET A == users[id].currentRoom
                  B == last'.arg.room
                  name == users[id].username
                  creates == B \notin DOMAIN rooms
                  k == IF creates THEN 3 ELSE 2
                  o == out'
                  toA == (Occupants(rooms, A) \ {id}) \cap Connected
                  toB == (Occupants(rooms', B)) \cap Connected
              IN /\ Len(o) = k + 3
                 /\ o[1].event = "room_users_update"
                 /\ o[1].data.room = A
                 /\ name \notin o[1].data.users
                 /\ toA \subseteq o[1].to /\ id \notin o[1].to
                 /\ IsSystemMessage(o[2], A, name, " has left the room.")
                 /\ toA \subseteq o[2].to /\ id \notin o[2].to
                 /\ creates => /\ o[3].event = "available_rooms"
                               /\ o[3].to = Connected
                 /\ o[k + 1].event = "room_users_update"
                 /\ o[k + 1].data.room = B
                 /\ name \in o[k + 1].data.users
                 /\ toB \subseteq o[k + 1].to /\ id \in o[k + 1].to
                 /\ IsSystemMessage(o[k + 2], B, name, " has joined the room.")
                 /\ toB \subseteq o[k + 2].to /\ id \in o[k + 2].to
                 /\ o[k + 3].event = "room_changed"
                 /\ o[k + 3].data.room = B
                 /\ o[k + 3].to = {id}]_vars

\* what C19 says of the join_room for room B that produced this step: an
\* available_rooms event is emitted exactly when B was not in the room
\* directory, it goes to all connections and lists every room id, B included
C19_Outcome(B) ==
    IF B \notin DOMAIN rooms
    THEN /\ Cardinality(Positions(out', "available_rooms")) = 1
         /\ \A i \in Positions(out', "available_rooms") :
               /\ out'[i].to = {id \in Conn : sockets'[id] = "connected"}
               /\ out'[i].data.rooms = DOMAIN rooms \cup {B}
               /\ out'[i].data.rooms = DOMAIN rooms'
    ELSE Positions(out', "available_rooms") = {}

\* C19 as stated: during any join_room, available_rooms is broadcast exactly
\* when the requested room id was not yet in the room directory.
C19_Original ==
    [][\A id \in Conn : Ran("join_room", id) => C19_Outcome(last'.arg.room)]_vars

\* C19 amended: the same, for a join_room sent by a connection with a session.
C19_AvailableRooms ==
    [][\A id \in Conn :
          (Ran("join_room", id) /\ id \in DOMAIN users)
              => C19_Outcome(last'.arg.room)]_vars

\* C19 witness: a join_room created a room while a connection without a
\* session and another session were connected.
C19_Witness ==
    /\ last.op = "join_room" /\ last.ok
    /\ Positions(out, "available_rooms") # {}
    /\ Connected \ DOMAIN users # {}
    /\ Cardinality(DOMAIN users \cap Connected) >= 2

\* C20: the disconnect of a connection c with a session in room R removes c
\* from R's occupant set, sends the remaining occupants of R a
\* room_users_update without c's name and then the 'has left' message, removes
\* c's session, broadcasts user_disconnected(c) to all connections, and leaves
\* c Terminated: a handler that runs later is never one of c's.
C20_Disconnect ==
    [][\A id \in Conn :
          /\ (Ran("disconnect", id) /\ id \in DOMAIN users) =>
                LET R == users[id].currentRoom
                    name == users[id].username
                    o == out'
                    remaining == (Occupants(rooms, R) \ {id}) \cap Connected
                IN /\ id \notin Occupants(rooms', R)
                   /\ Len(o) = 3
                   /\ o[1].event = "room_users_update"
                   /\ o[1].data.room = R
                   /\ name \notin o[1].data.users
                   /\ remaining \subseteq o[1].to /\ id \notin o[1].to
                   /\ IsSystemMessage(o[2], R, name, " has left the room.")
                   /\ remaining \subseteq o[2].to /\ id \notin o[2].to
                   /\ id \notin DOMAIN users'
                   /\ o[3].event = "user_disconnected"
                   /\ o[3].data.socketId = id
                   /\ o[3].to = {d \in Conn : sockets'[d] = "connected"}
                   /\ sockets'[id] = "disconnected"
          /\ sockets[id] = "disconnected" =>
                /\ sockets'[id] = "disconnected"
                /\ last'.id # id]_vars

\* C21: once a connection has disconnected it has no session and is in no
\* room's occupant set, in every later state.
C21_GoneAfterDisconnect ==
    \A id \in Conn :
        sockets[id] = "disconnected" =>
            /\ id \notin DOMAIN users
            /\ \A r \in DOMAIN rooms : id \notin rooms[r].users

\* The sessions whose currentRoom is r, except those in leaving.
SessionsIn(us, r, leaving) ==
    {id \in DOMAIN us \ leaving : us[id].currentRoom = r}

\* The room_users_update at position i of o announces a departure: the
\* 'has left' system message for the same room follows it.
IsLeaveUpdate(o, i) ==
    /\ i < Len(o)
    /\ \E n \in Usernames :
          IsSystemMessage(o[i + 1], o[i].data.room, n, " has left the room.")

\* C22: every room_users_update for room R, emitted by join_chat, join_room
\* or disconnect, carries exactly the display names of the sessions whose
\* currentRoom is R: no name of a session in another room, no name missing.
\* The connection that is leaving R in the same handler (the update that
\* precedes its 'has left' message) is counted as already gone.
C22_UpdateNames ==
    \A i \in Positions(out, "room_users_update") :
        LET R == out[i].data.room
            leaving == IF IsLeaveUpdate(out, i) THEN {last.id} ELSE {}
        IN out[i].data.users =
              {users[id].username : id \in SessionsIn(users, R, leaving)}

\* Some session carries the display name n.
NameHeld(us, n) == \E d \in DOMAIN us : us[d].username = n

\* join_chat(n) from id was accepted: a session named n and no error.
JoinAccepted(id, n) ==
    /\ last'.ok
    /\ id \in DOMAIN users' /\ users'[id].username = n
    /\ Positions(out', "error_message") = {}

\* C23, as stated: once a session named n has disconnected, every later
\* join_chat(n) from an unregistered connection succeeds.
C23_Original ==
    [][\A id \in Conn : \A n \in Usernames :
          (/\ Ran("join_chat", id) /\ last'.arg.username = n
           /\ id \notin DOMAIN users
           /\ n \in last.released)
          => JoinAccepted(id, n)]_vars

\* C23, amended: the disconnect of a session named n leaves no session named
\* n; a later join_chat(n) from an unregistered connection succeeds unless a
\* session holds n again by then; and while a session holds n the
\* join_chat(n) of an unregistered connection is rejected as taken and
\* changes nothing.
C23_NameReleased ==
    [][\A id \in Conn : \A n \in Usernames :
          /\ (Ran("disconnect", id) /\ id \in DOMAIN users
                /\ users[id].username = n)
             => ~NameHeld(users', n)
          /\ (/\ Ran("join_chat", id) /\ last'.arg.username = n
              /\ id \notin DOMAIN users
              /\ n \in last.released
              /\ ~NameHeld(users, n))
             => JoinAccepted(id, n)
          /\ (/\ Ran("join_chat", id) /\ last'.arg.username = n
              /\ id \notin DOMAIN users
              /\ NameHeld(users, n))
             => /\ ~last'.ok
                /\ out' = <<[event |-> "error_message", to |-> {id},
                             data |-> [text |-> "Username already taken. Please choose another."]]>>
                /\ UNCHANGED <<users, rooms, joined>>]_vars

\* A connection has just registered under a name that a disconnected session
\* released.
C23_Witness ==
    /\ last.op = "join_chat" /\ last.ok /\ last.from = {}
    /\ last.arg.username \in last.released
    /\ last.id \in DOMAIN users /\ users[last.id].username = last.arg.username

\* C24: between handlers, every connected connection c is subscribed to the
\* transport label R exactly when c is in the occupant set of room R of the
\* room directory.
C24_SubscribedIffOccupant ==
    \A c \in Connected : \A R \in DOMAIN rooms :
        R \in joined[c] <=> c \in rooms[R].users

====
